---- MODULE Spec2Model ----
(***************************************************************************)
(* Task data-access and business-rule layer of the todo-app: the           *)
(* PostgreSQL task repository, the task service, the task use case, the    *)
(* analytics use case and the request validator.                           *)
(*                                                                         *)
(* Time is a logical clock of ticks.  A calendar day is Day ticks.  Every  *)
(* handler reads the clock once (all its time.Now() calls fall in the same *)
(* tick) and every handler that wrote to the store takes one tick, so two  *)
(* sequential writes never carry the same timestamp.                       *)
(*                                                                         *)
(* Text (title, description, search) is a sequence of one-character        *)
(* strings.                                                                *)
(***************************************************************************)
EXTENDS Integers, Sequences, FiniteSets, TLC

\* ---------------------------------------------------------------- bounds
MaxTime == 3
MaxTasks == 2

\* ----------------------------------------------------- program constants
Null == -1
Day == 2
MaxTitleLen == 255
MaxDescriptionLen == 1000

TaskStatusActive == "active"
TaskStatusCompleted == "completed"
PriorityLow == "low"
PriorityMedium == "medium"
PriorityHigh == "high"

ErrNone == "none"
ErrValidation == "validation"
ErrNotFound == "not_found"
ErrConflict == "conflict"
ErrStorage == "storage"

NoTask == [id |-> 0]
NoFault == 0

\* -------------------------------------------------------------- helpers
Before(a, b) == a < b

Repeat(c, n) == [i \in 1..n |-> c]

\* ------------------------------------------------------------ validation
\* go-playground/validator tags of CreateTaskRequest / UpdateTaskRequest.
\* A tag is evaluated on the zero value too unless "omitempty" is present,
\* and "oneof" holds only when the value is one of the listed words.
TagRequired(v, zero) == v # zero
TagMin(s, n) == Len(s) >= n
TagMax(s, n) == Len(s) <= n
TagOneOf(v, words) == v \in words
TagGt(n, m) == n > m

ValidateStructCreate(req) ==
    /\ TagRequired(req.title, <<>>)
    /\ TagMin(req.title, 1)
    /\ TagMax(req.title, MaxTitleLen)
    /\ TagMax(req.description, MaxDescriptionLen)
    /\ TagOneOf(req.priority, {PriorityLow, PriorityMedium, PriorityHigh})

ValidateStructUpdate(req) ==
    /\ TagRequired(req.id, 0)
    /\ TagGt(req.id, 0)
    /\ TagRequired(req.title, <<>>)
    /\ TagMin(req.title, 1)
    /\ TagMax(req.title, MaxTitleLen)
    /\ TagMax(req.description, MaxDescriptionLen)
    /\ TagOneOf(req.priority, {PriorityLow, PriorityMedium, PriorityHigh})

ValidateCreateTaskRequest(req, t) ==
    IF ~ValidateStructCreate(req) THEN ErrValidation
    ELSE IF req.due_date # Null /\ Before(req.due_date, t) THEN ErrValidation
    ELSE ErrNone

ValidateUpdateTaskRequest(req, t) ==
    IF ~ValidateStructUpdate(req) THEN ErrValidation
    ELSE IF req.due_date # Null /\ Before(req.due_date, t) THEN ErrValidation
    ELSE ErrNone

ValidateID(id) == IF id <= 0 THEN ErrValidation ELSE ErrNone

\* ------------------------------------------------------------ repository
\* The tasks table is a function from id to row.  f = TRUE makes the
\* statement fail in the backend without effect.

\* The SELECT lists of the repository leave out the archived column, so the
\* scanned struct keeps the zero value.
ScanRow(row) == [row EXCEPT !.archived = FALSE]

RepoCreateFirstId(tbl, serial, task, t, f) ==
    IF f THEN [db |-> tbl, err |-> ErrStorage, task |-> NoTask]
    ELSE LET row == [id |-> 1,
                     title |-> task.title,
                     description |-> task.description,
                     status |-> task.status,
                     priority |-> task.priority,
                     due_date |-> task.due_date,
                     archived |-> FALSE,
                     created_at |-> t,
                     updated_at |-> t,
                     completed_at |-> Null]
         IN [db |-> tbl @@ (serial :> row), err |-> ErrNone,
             task |-> [task EXCEPT !.id = 1, !.created_at = t, !.updated_at = t]]

RepoCreate(tbl, serial, task, t, f) ==
    IF f THEN [db |-> tbl, err |-> ErrStorage, task |-> NoTask]
    ELSE LET row == [id |-> serial,
                     title |-> task.title,
                     description |-> task.description,
                     status |-> task.status,
                     priority |-> task.priority,
                     due_date |-> task.due_date,
                     archived |-> FALSE,
                     created_at |-> t,
                     updated_at |-> t,
                     completed_at |-> Null]
         IN [db |-> tbl @@ (serial :> row), err |-> ErrNone,
             task |-> [task EXCEPT !.id = serial, !.created_at = t, !.updated_at = t]]

RepoGetByIDNoRowsAsFailure(tbl, id, f) ==
    IF f \/ id \notin DOMAIN tbl THEN [err |-> ErrStorage, task |-> NoTask]
    ELSE [err |-> ErrNone, task |-> ScanRow(tbl[id])]

RepoGetByID(tbl, id, f) ==
    IF f THEN [err |-> ErrStorage, task |-> NoTask]
    ELSE IF id \notin DOMAIN tbl THEN [err |-> ErrNotFound, task |-> NoTask]
    ELSE [err |-> ErrNone, task |-> ScanRow(tbl[id])]

RepoUpdateWholeRow(tbl, task, t, f) ==
    IF f THEN [db |-> tbl, err |-> ErrStorage, task |-> NoTask]
    ELSE IF task.id \notin DOMAIN tbl THEN [db |-> tbl, err |-> ErrNotFound, task |-> NoTask]
    ELSE [db |-> [tbl EXCEPT ![task.id] = [@ EXCEPT !.title = task.title,
                                                     !.description = task.description,
                                                     !.priority = task.priority,
                                                     !.due_date = task.due_date,
                                                     !.status = task.status,
                                                     !.completed_at = task.completed_at,
                                                     !.updated_at = t]],
          err |-> ErrNone,
          task |-> [task EXCEPT !.updated_at = t]]

RepoUpdateResetsStatus(tbl, task, t, f) ==
    IF f THEN [db |-> tbl, err |-> ErrStorage, task |-> NoTask]
    ELSE IF task.id \notin DOMAIN tbl THEN [db |-> tbl, err |-> ErrNotFound, task |-> NoTask]
    ELSE [db |-> [tbl EXCEPT ![task.id] = [@ EXCEPT !.title = task.title,
                                                     !.description = task.description,
                                                     !.priority = task.priority,
                                                     !.due_date = task.due_date,
                                                     !.status = TaskStatusActive,
                                                     !.completed_at = Null,
                                                     !.updated_at = t]],
          err |-> ErrNone,
          task |-> [task EXCEPT !.updated_at = t]]

RepoUpdate(tbl, task, t, f) ==
    IF f THEN [db |-> tbl, err |-> ErrStorage, task |-> NoTask]
    ELSE IF task.id \notin DOMAIN tbl THEN [db |-> tbl, err |-> ErrNotFound, task |-> NoTask]
    ELSE [db |-> [tbl EXCEPT ![task.id] = [@ EXCEPT !.title = task.title,
                                                     !.description = task.description,
                                                     !.priority = task.priority,
                                                     !.due_date = task.due_date,
                                                     !.updated_at = t]],
          err |-> ErrNone,
          task |-> [task EXCEPT !.updated_at = t]]

RepoDeleteAllRows(tbl, id, f) ==
    IF f THEN [db |-> tbl, err |-> ErrStorage]
    ELSE IF id \notin DOMAIN tbl THEN [db |-> tbl, err |-> ErrNotFound]
    ELSE [db |-> <<>>, err |-> ErrNone]

RepoDelete(tbl, id, f) ==
    IF f THEN [db |-> tbl, err |-> ErrStorage]
    ELSE IF id \notin DOMAIN tbl THEN [db |-> tbl, err |-> ErrNotFound]
    ELSE [db |-> [i \in DOMAIN tbl \ {id} |-> tbl[i]], err |-> ErrNone]

RepoMarkAsCompleted(tbl, id, t, f) ==
    IF f THEN [db |-> tbl, err |-> ErrStorage]
    ELSE IF id \notin DOMAIN tbl THEN [db |-> tbl, err |-> ErrNotFound]
    ELSE [db |-> [tbl EXCEPT ![id] = [@ EXCEPT !.status = TaskStatusCompleted,
                                                !.completed_at = t,
                                                !.updated_at = t]],
          err |-> ErrNone]

RepoMarkAsActiveKeepsCompletedAt(tbl, id, t, f) ==
    IF f THEN [db |-> tbl, err |-> ErrStorage]
    ELSE IF id \notin DOMAIN tbl THEN [db |-> tbl, err |-> ErrNotFound]
    ELSE [db |-> [tbl EXCEPT ![id] = [@ EXCEPT !.status = TaskStatusActive,
                                                !.updated_at = t]],
          err |-> ErrNone]

RepoMarkAsActive(tbl, id, t, f) ==
    IF f THEN [db |-> tbl, err |-> ErrStorage]
    ELSE IF id \notin DOMAIN tbl THEN [db |-> tbl, err |-> ErrNotFound]
    ELSE [db |-> [tbl EXCEPT ![id] = [@ EXCEPT !.status = TaskStatusActive,
                                                !.completed_at = Null,
                                                !.updated_at = t]],
          err |-> ErrNone]

\* --------------------------------------------------------------- service
\* fault is the number of the repository call of the handler that fails in
\* the backend (NoFault: none does).

SvcCreateTask(tbl, serial, req, t, fault) ==
    IF ValidateCreateTaskRequest(req, t) # ErrNone
    THEN [db |-> tbl, err |-> ErrValidation, task |-> NoTask]
    ELSE LET task == [id |-> 0,
                      title |-> req.title,
                      description |-> req.description,
                      status |-> TaskStatusActive,
                      priority |-> IF req.priority = "" THEN PriorityMedium ELSE req.priority,
                      due_date |-> req.due_date,
                      archived |-> FALSE,
                      created_at |-> t,
                      updated_at |-> t,
                      completed_at |-> Null]
         IN RepoCreate(tbl, serial, task, t, fault = 1)

SvcGetTaskByID(tbl, id, f) ==
    IF ValidateID(id) # ErrNone THEN [err |-> ErrValidation, task |-> NoTask]
    ELSE RepoGetByID(tbl, id, f)

SvcUpdateTaskKeepsDescription(tbl, req, t, fGet, fUpd) ==
    IF ValidateUpdateTaskRequest(req, t) # ErrNone
    THEN [db |-> tbl, err |-> ErrValidation, task |-> NoTask]
    ELSE LET g == RepoGetByID(tbl, req.id, fGet)
         IN IF g.err # ErrNone THEN [db |-> tbl, err |-> g.err, task |-> NoTask]
            ELSE LET existingTask == [g.task EXCEPT !.title = req.title,
                                                    !.priority = req.priority,
                                                    !.due_date = req.due_date,
                                                    !.updated_at = t]
                 IN RepoUpdate(tbl, existingTask, t, fUpd)

SvcUpdateTask(tbl, req, t, fGet, fUpd) ==
    IF ValidateUpdateTaskRequest(req, t) # ErrNone
    THEN [db |-> tbl, err |-> ErrValidation, task |-> NoTask]
    ELSE LET g == RepoGetByID(tbl, req.id, fGet)
         IN IF g.err # ErrNone THEN [db |-> tbl, err |-> g.err, task |-> NoTask]
            ELSE LET existingTask == [g.task EXCEPT !.title = req.title,
                                                    !.description = req.description,
                                                    !.priority = req.priority,
                                                    !.due_date = req.due_date,
                                                    !.updated_at = t]
                 IN RepoUpdate(tbl, existingTask, t, fUpd)

SvcDeleteTask(tbl, id, fGet, fDel) ==
    IF ValidateID(id) # ErrNone THEN [db |-> tbl, err |-> ErrValidation]
    ELSE LET g == RepoGetByID(tbl, id, fGet)
         IN IF g.err # ErrNone THEN [db |-> tbl, err |-> g.err]
            ELSE RepoDelete(tbl, id, fDel)

SvcToggleTaskStatusAlwaysCompletes(tbl, id, t, fGet, fMark, fRefetch) ==
    IF ValidateID(id) # ErrNone THEN [db |-> tbl, err |-> ErrValidation, task |-> NoTask]
    ELSE LET g == RepoGetByID(tbl, id, fGet)
         IN IF g.err # ErrNone THEN [db |-> tbl, err |-> g.err, task |-> NoTask]
            ELSE LET m == RepoMarkAsCompleted(tbl, id, t, fMark)
                 IN IF m.err # ErrNone THEN [db |-> m.db, err |-> m.err, task |-> NoTask]
                    ELSE LET u == RepoGetByID(m.db, id, fRefetch)
                         IN [db |-> m.db, err |-> u.err, task |-> u.task]

SvcToggleTaskStatusKeepsLocalCopy(tbl, id, t, fGet, fMark, fRefetch) ==
    IF ValidateID(id) # ErrNone THEN [db |-> tbl, err |-> ErrValidation, task |-> NoTask]
    ELSE LET g == RepoGetByID(tbl, id, fGet)
         IN IF g.err # ErrNone THEN [db |-> tbl, err |-> g.err, task |-> NoTask]
            ELSE LET m == IF g.task.status = TaskStatusActive
                          THEN RepoMarkAsCompleted(tbl, id, t, fMark)
                          ELSE RepoMarkAsActive(tbl, id, t, fMark)
                 IN IF m.err # ErrNone THEN [db |-> m.db, err |-> m.err, task |-> NoTask]
                    ELSE LET u == RepoGetByID(m.db, id, fRefetch)
                         IN [db |-> m.db, err |-> ErrNone,
                             task |-> IF u.err = ErrNone THEN u.task ELSE g.task]

SvcToggleTaskStatus(tbl, id, t, fGet, fMark, fRefetch) ==
    IF ValidateID(id) # ErrNone THEN [db |-> tbl, err |-> ErrValidation, task |-> NoTask]
    ELSE LET g == RepoGetByID(tbl, id, fGet)
         IN IF g.err # ErrNone THEN [db |-> tbl, err |-> g.err, task |-> NoTask]
            ELSE LET m == IF g.task.status = TaskStatusActive
                          THEN RepoMarkAsCompleted(tbl, id, t, fMark)
                          ELSE RepoMarkAsActive(tbl, id, t, fMark)
                 IN IF m.err # ErrNone THEN [db |-> m.db, err |-> m.err, task |-> NoTask]
                    ELSE LET u == RepoGetByID(m.db, id, fRefetch)
                         IN [db |-> m.db, err |-> u.err, task |-> u.task]

\* -------------------------------------------------------------- use case
UcCreateTask(tbl, serial, req, t, fault) ==
    IF ValidateCreateTaskRequest(req, t) # ErrNone
    THEN [db |-> tbl, err |-> ErrValidation, task |-> NoTask]
    ELSE IF req.due_date # Null /\ Before(req.due_date, t - Day)
    THEN [db |-> tbl, err |-> ErrValidation, task |-> NoTask]
    ELSE SvcCreateTask(tbl, serial,
                       [req EXCEPT !.priority = IF @ = "" THEN PriorityMedium ELSE @],
                       t, fault)

UcGetTaskByID(tbl, id, fault) ==
    IF ValidateID(id) # ErrNone THEN [err |-> ErrValidation, task |-> NoTask]
    ELSE SvcGetTaskByID(tbl, id, fault = 1)

UcUpdateTaskNoCompletedRule(tbl, req, t, fault) ==
    IF ValidateUpdateTaskRequest(req, t) # ErrNone
    THEN [db |-> tbl, err |-> ErrValidation, task |-> NoTask]
    ELSE LET e == SvcGetTaskByID(tbl, req.id, fault = 1)
         IN IF e.err # ErrNone THEN [db |-> tbl, err |-> e.err, task |-> NoTask]
            ELSE IF req.due_date # Null /\ Before(req.due_date, t - Day)
            THEN [db |-> tbl, err |-> ErrValidation, task |-> NoTask]
            ELSE SvcUpdateTask(tbl, req, t, fault = 2, fault = 3)

UcUpdateTask(tbl, req, t, fault) ==
    IF ValidateUpdateTaskRequest(req, t) # ErrNone
    THEN [db |-> tbl, err |-> ErrValidation, task |-> NoTask]
    ELSE LET e == SvcGetTaskByID(tbl, req.id, fault = 1)
         IN IF e.err # ErrNone THEN [db |-> tbl, err |-> e.err, task |-> NoTask]
            ELSE IF req.due_date # Null /\ Before(req.due_date, t - Day)
            THEN [db |-> tbl, err |-> ErrValidation, task |-> NoTask]
            ELSE IF /\ e.task.status = TaskStatusCompleted
                    /\ (req.title # e.task.title \/ req.priority # e.task.priority)
            THEN [db |-> tbl, err |-> ErrConflict, task |-> NoTask]
            ELSE SvcUpdateTask(tbl, req, t, fault = 2, fault = 3)

UcDeleteTask(tbl, id, fault) ==
    IF ValidateID(id) # ErrNone THEN [db |-> tbl, err |-> ErrValidation]
    ELSE LET e == SvcGetTaskByID(tbl, id, fault = 1)
         IN IF e.err # ErrNone THEN [db |-> tbl, err |-> e.err]
            ELSE SvcDeleteTask(tbl, id, fault = 2, fault = 3)

UcToggleTaskStatus(tbl, id, t, fault) ==
    IF ValidateID(id) # ErrNone THEN [db |-> tbl, err |-> ErrValidation, task |-> NoTask]
    ELSE LET e == SvcGetTaskByID(tbl, id, fault = 1)
         IN IF e.err # ErrNone THEN [db |-> tbl, err |-> e.err, task |-> NoTask]
            ELSE SvcToggleTaskStatus(tbl, id, t, fault = 2, fault = 3, fault = 4)

\* ------------------------------------------------------- analytics, stats
\* COUNT(CASE WHEN ... THEN 1 END): the number of the rows picked out.
CountWhere(tbl, picked) == Cardinality({i \in DOMAIN tbl : tbl[i] \in picked})

TableRows(tbl) == {tbl[i] : i \in DOMAIN tbl}

SameDay(a, b) == a \div Day = b \div Day

RepoGetTasksStatsActiveUndated(tbl, t, f) ==
    IF f THEN [err |-> ErrStorage]
    ELSE [err |-> ErrNone,
          stats |-> [total_tasks |-> Cardinality(DOMAIN tbl),
                     active_tasks |-> CountWhere(tbl, {r \in TableRows(tbl) :
                         r.status = "active" /\ r.due_date = Null}),
                     completed_tasks |-> CountWhere(tbl, {r \in TableRows(tbl) : r.status = "completed"}),
                     overdue_tasks |-> 0,
                     today_tasks |-> 0,
                     week_tasks |-> 0]]

RepoGetTasksStats(tbl, t, f) ==
    IF f THEN [err |-> ErrStorage]
    ELSE [err |-> ErrNone,
          stats |-> [total_tasks |-> Cardinality(DOMAIN tbl),
                     active_tasks |-> CountWhere(tbl, {r \in TableRows(tbl) : r.status = "active"}),
                     completed_tasks |-> CountWhere(tbl, {r \in TableRows(tbl) : r.status = "completed"}),
                     overdue_tasks |-> CountWhere(tbl, {r \in TableRows(tbl) :
                         r.status = "active" /\ r.due_date # Null /\ r.due_date < t}),
                     today_tasks |-> CountWhere(tbl, {r \in TableRows(tbl) :
                         r.status = "active" /\ r.due_date # Null /\ SameDay(r.due_date, t)}),
                     week_tasks |-> CountWhere(tbl, {r \in TableRows(tbl) :
                         /\ r.status = "active" /\ r.due_date # Null
                         /\ r.due_date >= t /\ r.due_date <= t + 7 * Day})]]

\* ------------------------------------------------- query specification
DateFilterAll == "all"
DateFilterToday == "today"
DateFilterWeek == "week"
DateFilterOverdue == "overdue"

SortFieldCreatedAt == "created_at"
SortFieldUpdatedAt == "updated_at"
SortFieldPriority == "priority"
SortFieldDueDate == "due_date"
SortFieldTitle == "title"
SortFieldStatus == "status"
SortOrderAsc == "asc"
SortOrderDesc == "desc"

IsValidStatus(status) ==
    status = TaskStatusActive \/ status = TaskStatusCompleted \/ status = ""

IsValidPriority(priority) ==
    priority = PriorityLow \/ priority = PriorityMedium \/ priority = PriorityHigh \/ priority = ""

IsValidDateFilter(dateType) ==
    \/ dateType = DateFilterAll
    \/ dateType = DateFilterToday
    \/ dateType = DateFilterWeek
    \/ dateType = DateFilterOverdue

IsValidSortField(field) ==
    \/ field = SortFieldCreatedAt
    \/ field = SortFieldUpdatedAt
    \/ field = SortFieldPriority
    \/ field = SortFieldDueDate
    \/ field = SortFieldTitle
    \/ field = SortFieldStatus

IsValidSortOrder(order) == order = SortOrderAsc \/ order = SortOrderDesc

ValidateTaskFilter(filter) ==
    IF filter.status # "" /\ ~IsValidStatus(filter.status) THEN ErrValidation
    ELSE IF filter.priority # "" /\ ~IsValidPriority(filter.priority) THEN ErrValidation
    ELSE IF ~IsValidDateFilter(filter.date_type) THEN ErrValidation
    ELSE IF /\ filter.due_from # Null /\ filter.due_to # Null
            /\ filter.due_from > filter.due_to THEN ErrValidation
    ELSE ErrNone

ValidateTaskSortFieldOnly(sort) ==
    IF ~IsValidSortField(sort.field) THEN ErrValidation ELSE ErrNone

ValidateTaskSort(sort) ==
    IF ~IsValidSortField(sort.field) THEN ErrValidation
    ELSE IF ~IsValidSortOrder(sort.order) THEN ErrValidation
    ELSE ErrNone

\* ------------------------------------------------------- text predicates
Lower(c) == CASE c = "A" -> "a" [] c = "B" -> "b" [] OTHER -> c

CharRank(c) == CASE c = "a" -> 1 [] c = "b" -> 2 [] c = "x" -> 3 [] OTHER -> 0

\* PostgreSQL ILIKE: % matches any run of characters, _ any one character,
\* every other character matches itself without regard to case.
RECURSIVE ILike(_, _)
ILike(s, pat) ==
    IF pat = <<>> THEN s = <<>>
    ELSE IF Head(pat) = "%"
         THEN ILike(s, Tail(pat)) \/ (s # <<>> /\ ILike(Tail(s), pat))
    ELSE IF s = <<>> THEN FALSE
    ELSE IF Head(pat) = "_" THEN ILike(Tail(s), Tail(pat))
    ELSE Lower(Head(s)) = Lower(Head(pat)) /\ ILike(Tail(s), Tail(pat))

RECURSIVE LexLeq(_, _)
LexLeq(a, b) ==
    IF a = <<>> THEN TRUE
    ELSE IF b = <<>> THEN FALSE
    ELSE IF CharRank(Head(a)) # CharRank(Head(b)) THEN CharRank(Head(a)) < CharRank(Head(b))
    ELSE LexLeq(Tail(a), Tail(b))

\* ------------------------------------------------- dynamic query builder
\* buildWhereClause: the list of conditions, joined by AND.
buildWhereClause(filter) ==
    LET c1 == IF filter.status # ""
              THEN <<[kind |-> "status =", arg |-> filter.status]>> ELSE <<>>
        c2 == IF filter.priority # ""
              THEN <<[kind |-> "priority =", arg |-> filter.priority]>> ELSE <<>>
        c3 == IF filter.search # <<>>
              THEN <<[kind |-> "ILIKE", arg |-> <<"%">> \o filter.search \o <<"%">>]>> ELSE <<>>
        c4 == CASE filter.date_type = DateFilterToday -> <<[kind |-> "today", arg |-> Null]>>
                [] filter.date_type = DateFilterWeek -> <<[kind |-> "week", arg |-> Null]>>
                [] filter.date_type = DateFilterOverdue -> <<[kind |-> "overdue", arg |-> Null]>>
                [] OTHER -> <<>>
        c5 == IF filter.due_from # Null
              THEN <<[kind |-> "due_date >=", arg |-> filter.due_from]>> ELSE <<>>
        c6 == IF filter.due_to # Null
              THEN <<[kind |-> "due_date <=", arg |-> filter.due_to]>> ELSE <<>>
    IN c1 \o c2 \o c3 \o c4 \o c5 \o c6

\* One SQL condition on one row at time t; a comparison with NULL is not true.
ConditionHolds(c, r, t) ==
    CASE c.kind = "status =" -> r.status = c.arg
      [] c.kind = "priority =" -> r.priority = c.arg
      [] c.kind = "ILIKE" -> ILike(r.title, c.arg) \/ ILike(r.description, c.arg)
      [] c.kind = "today" -> r.due_date # Null /\ SameDay(r.due_date, t)
      [] c.kind = "week" -> r.due_date # Null /\ r.due_date >= t /\ r.due_date <= t + 7 * Day
      [] c.kind = "overdue" -> r.status = "active" /\ r.due_date # Null /\ r.due_date < t
      [] c.kind = "due_date >=" -> r.due_date # Null /\ r.due_date >= c.arg
      [] c.kind = "due_date <=" -> r.due_date # Null /\ r.due_date <= c.arg

WhereHoldsAny(conditions, r, t) ==
    \E k \in 1..Len(conditions) : ConditionHolds(conditions[k], r, t)

WhereHolds(conditions, r, t) ==
    \A k \in 1..Len(conditions) : ConditionHolds(conditions[k], r, t)

\* buildOrderClause: the ordering expression and the direction.
buildOrderClause(sort) ==
    [orderField |-> CASE sort.field = SortFieldTitle -> "title"
                      [] sort.field = SortFieldPriority -> "CASE priority"
                      [] sort.field = SortFieldDueDate -> "due_date"
                      [] sort.field = SortFieldStatus -> "status"
                      [] OTHER -> "created_at",
     orderDirection |-> IF sort.order = SortOrderAsc THEN "ASC" ELSE "DESC"]

PriorityCase(p) ==
    CASE p = "high" -> 1 [] p = "medium" -> 2 [] p = "low" -> 3 [] OTHER -> 4

\* a sorts no later than b under the ordering expression, ascending; NULL
\* sorts as larger than every value.
KeyLeq(orderField, a, b) ==
    CASE orderField = "title" -> LexLeq(a.title, b.title)
      [] orderField = "CASE priority" -> PriorityCase(a.priority) <= PriorityCase(b.priority)
      [] orderField = "due_date" ->
            b.due_date = Null \/ (a.due_date # Null /\ a.due_date <= b.due_date)
      [] orderField = "status" -> a.status = "active" \/ b.status = "completed"
      [] orderField = "created_at" -> a.created_at <= b.created_at

RECURSIVE Perms(_)
Perms(S) ==
    IF S = {} THEN {<<>>}
    ELSE UNION {{<<x>> \o q : q \in Perms(S \ {x})} : x \in S}

\* Every order of the rows ids that ORDER BY allows; rows with equal keys
\* come in any order.
OrderBy(tbl, ids, order) ==
    {s \in Perms(ids) : \A i, j \in 1..Len(s) : i < j =>
        IF order.orderDirection = "ASC"
        THEN KeyLeq(order.orderField, tbl[s[i]], tbl[s[j]])
        ELSE KeyLeq(order.orderField, tbl[s[j]], tbl[s[i]])}

Limit(s, n) == SubSeq(s, 1, IF Len(s) < n THEN Len(s) ELSE n)

Rows(tbl, s) == [k \in 1..Len(s) |-> ScanRow(tbl[s[k]])]

\* The possible results of GetAll.
RepoGetAll(tbl, filter, sort, t) ==
    LET where == buildWhereClause(filter)
        ids == {i \in DOMAIN tbl : WhereHolds(where, tbl[i], t)}
    IN {Rows(tbl, s) : s \in OrderBy(tbl, ids, buildOrderClause(sort))}

RepoGetRecentTasks(tbl, limit) ==
    {Rows(tbl, Limit(s, limit)) :
        s \in OrderBy(tbl, DOMAIN tbl, [orderField |-> "created_at", orderDirection |-> "DESC"])}

RepoGetUpcomingTasksAnyStatus(tbl, limit, t) ==
    LET ids == {i \in DOMAIN tbl : tbl[i].due_date # Null /\ tbl[i].due_date >= t}
    IN {Rows(tbl, Limit(s, limit)) :
            s \in OrderBy(tbl, ids, [orderField |-> "due_date", orderDirection |-> "ASC"])}

RepoGetUpcomingTasks(tbl, limit, t) ==
    LET ids == {i \in DOMAIN tbl : /\ tbl[i].status = "active"
                                   /\ tbl[i].due_date # Null
                                   /\ tbl[i].due_date >= t}
    IN {Rows(tbl, Limit(s, limit)) :
            s \in OrderBy(tbl, ids, [orderField |-> "due_date", orderDirection |-> "ASC"])}

\* ------------------------------------------------------ service queries
SvcGetAllTasks(tbl, filter, sort, t, f) ==
    IF ValidateTaskFilter(filter) # ErrNone THEN {[err |-> ErrValidation, tasks |-> <<>>]}
    ELSE IF ValidateTaskSort(sort) # ErrNone THEN {[err |-> ErrValidation, tasks |-> <<>>]}
    ELSE IF f THEN {[err |-> ErrStorage, tasks |-> <<>>]}
    ELSE {[err |-> ErrNone, tasks |-> ts] : ts \in RepoGetAll(tbl, filter, sort, t)}

IsOverdueAnyStatus(task, t) ==
    task.due_date # Null /\ Before(task.due_date, t)

IsOverdue(task, t) ==
    task.due_date # Null /\ task.status = TaskStatusActive /\ Before(task.due_date, t)

TaskResponse(task, t) ==
    [id |-> task.id,
     title |-> task.title,
     description |-> task.description,
     status |-> task.status,
     priority |-> task.priority,
     due_date |-> task.due_date,
     created_at |-> task.created_at,
     updated_at |-> task.updated_at,
     completed_at |-> task.completed_at,
     is_overdue |-> IsOverdue(task, t)]

TaskResponses(tasks, t) == [k \in 1..Len(tasks) |-> TaskResponse(tasks[k], t)]

RecentLimit == 5
UpcomingLimit == 5

SvcGetDashboardStats(tbl, t, fault) ==
    LET st == RepoGetTasksStats(tbl, t, fault = 1)
    IN IF st.err # ErrNone THEN {[err |-> st.err]}
       ELSE IF fault = 2 \/ fault = 3 THEN {[err |-> ErrStorage]}
       ELSE {[err |-> ErrNone,
              task_stats |-> st.stats,
              priority_breakdown |->
                  (PriorityLow :> 0) @@ (PriorityMedium :> 0) @@ (PriorityHigh :> 0),
              status_breakdown |-> (TaskStatusActive :> 0) @@ (TaskStatusCompleted :> 0),
              recent_tasks |-> TaskResponses(recent, t),
              upcoming_tasks |-> TaskResponses(upcoming, t)] :
                 recent \in RepoGetRecentTasks(tbl, RecentLimit),
                 upcoming \in RepoGetUpcomingTasks(tbl, UpcomingLimit, t)}

\* ------------------------------------------------------ analytics use case
AnGetDashboardStats(tbl, t, fault) == SvcGetDashboardStats(tbl, t, fault)

AnGetTasksStats(tbl, t, fault) ==
    {IF d.err # ErrNone THEN [err |-> d.err] ELSE [err |-> ErrNone, stats |-> d.task_stats] :
        d \in SvcGetDashboardStats(tbl, t, fault)}

\* ------------------------------------------------------ machine integers
\* A Go int of the 64-bit build: eight base-256 digits, least significant
\* first, in two's complement.
Int64(n) == [k \in 1..8 |-> IF k = 1 THEN n % 256 ELSE IF k = 2 THEN (n \div 256) % 256 ELSE 0]

Int64IsNeg(a) == a[8] >= 128

RECURSIVE Int64AddFrom(_, _, _, _)
Int64AddFrom(a, b, k, carry) ==
    IF k > 8 THEN <<>>
    ELSE LET d == a[k] + b[k] + carry
         IN <<d % 256>> \o Int64AddFrom(a, b, k + 1, d \div 256)

Int64Add(a, b) == Int64AddFrom(a, b, 1, 0)

Int64Neg(a) == Int64Add([k \in 1..8 |-> 255 - a[k]], Int64(1))

Int64Sub(a, b) == Int64Add(a, Int64Neg(b))

RECURSIVE Int64Column(_, _, _, _)
Int64Column(a, b, k, i) ==
    IF i > k THEN 0 ELSE a[i] * b[k + 1 - i] + Int64Column(a, b, k, i + 1)

RECURSIVE Int64MulFrom(_, _, _, _)
Int64MulFrom(a, b, k, carry) ==
    IF k > 8 THEN <<>>
    ELSE LET d == Int64Column(a, b, k, 1) + carry
         IN <<d % 256>> \o Int64MulFrom(a, b, k + 1, d \div 256)

Int64Mul(a, b) == Int64MulFrom(a, b, 1, 0)

RECURSIVE Int64BelowFrom(_, _, _)
Int64BelowFrom(a, b, k) ==
    IF k = 0 THEN FALSE
    ELSE IF a[k] # b[k] THEN a[k] < b[k]
    ELSE Int64BelowFrom(a, b, k - 1)

Int64Lt(a, b) ==
    IF Int64IsNeg(a) # Int64IsNeg(b) THEN Int64IsNeg(a) ELSE Int64BelowFrom(a, b, 8)

\* The value of a machine integer known to lie in 0..65535.
Int64Small(a) == a[1] + 256 * a[2]

\* ------------------------------------------------------ use-case queries
ErrPanic == "panic"
DefaultLimit == 20
MaxLimit == 100

UcGetTasks(tbl, filter, sort, t, fault) ==
    IF ValidateTaskFilter(filter) # ErrNone THEN {[err |-> ErrValidation, tasks |-> <<>>]}
    ELSE IF ValidateTaskSort(sort) # ErrNone THEN {[err |-> ErrValidation, tasks |-> <<>>]}
    ELSE SvcGetAllTasks(tbl, filter, sort, t, fault = 1)

\* The slice expression allTasks[start:end] panics unless 0 <= start <= end;
\* end is at most len(allTasks) here.
PagedTasks(allTasks, page, limit, t) ==
    LET totalCount == Int64(Len(allTasks))
        start == Int64Mul(Int64Sub(page, Int64(1)), limit)
        end0 == Int64Add(start, limit)
    IN IF ~Int64Lt(start, totalCount)
       THEN [err |-> ErrNone, tasks |-> <<>>, total_count |-> Len(allTasks), all |-> allTasks]
       ELSE LET end == IF Int64Lt(totalCount, end0) THEN totalCount ELSE end0
            IN IF Int64IsNeg(start) \/ Int64Lt(end, start)
               THEN [err |-> ErrPanic, tasks |-> <<>>, total_count |-> 0, all |-> allTasks]
               ELSE [err |-> ErrNone,
                     tasks |-> TaskResponses(SubSeq(allTasks, Int64Small(start) + 1,
                                                    Int64Small(end)), t),
                     total_count |-> Len(allTasks),
                     all |-> allTasks]

UcGetTasksWithPagination(tbl, filter, sort, page0, limit0, t, fault) ==
    LET page == IF Int64Lt(page0, Int64(1)) THEN Int64(1) ELSE page0
        limit == IF Int64Lt(limit0, Int64(1)) \/ Int64Lt(Int64(MaxLimit), limit0)
                 THEN Int64(DefaultLimit) ELSE limit0
        failed(e) == [err |-> e, tasks |-> <<>>, total_count |-> 0, all |-> <<>>]
    IN IF ValidateTaskFilter(filter) # ErrNone THEN {failed(ErrValidation)}
       ELSE IF ValidateTaskSort(sort) # ErrNone THEN {failed(ErrValidation)}
       ELSE {IF r.err # ErrNone THEN failed(r.err) ELSE PagedTasks(r.tasks, page, limit, t) :
                r \in SvcGetAllTasks(tbl, filter, sort, t, fault = 1)}

\* ---------------------------------------------------------------- inputs
Titles == {<<"a">>, <<"b">>}
Descriptions == {<<>>, <<"B">>}
Priorities == {PriorityLow, PriorityMedium, PriorityHigh}
DueDates == {Null, 1, 3}

LongTitle == Repeat("x", MaxTitleLen + 1)
LongDescription == Repeat("x", MaxDescriptionLen + 1)

CreateTaskRequest(title, description, priority, due) ==
    [title |-> title, description |-> description, priority |-> priority, due_date |-> due]

CreateRequests ==
    { CreateTaskRequest(<<"a">>, <<>>, PriorityLow, Null),
      CreateTaskRequest(<<"b">>, <<"B">>, PriorityHigh, 1),
      CreateTaskRequest(<<"a">>, <<>>, PriorityMedium, 3),
      CreateTaskRequest(<<"a">>, <<>>, "", Null),
      CreateTaskRequest(<<"b">>, <<"B">>, "", Null),
      CreateTaskRequest(<<>>, <<>>, PriorityMedium, Null),
      CreateTaskRequest(LongTitle, <<>>, PriorityMedium, Null),
      CreateTaskRequest(<<"a">>, LongDescription, PriorityMedium, Null),
      CreateTaskRequest(<<"a">>, <<>>, "urgent", Null) }

Ids == 0..MaxTasks

\* The update requests tried on a table: for a stored task, the request that
\* repeats the stored values and every request that differs from it in one
\* field; for an id without a row, one well-formed request.
UpdateRequests(tbl) ==
    UNION { IF id \in DOMAIN tbl
            THEN LET same == [id |-> id,
                              title |-> tbl[id].title,
                              description |-> tbl[id].description,
                              priority |-> tbl[id].priority,
                              due_date |-> tbl[id].due_date,
                              archived |-> FALSE]
                 IN {same}
                    \cup {[same EXCEPT !.title = x] : x \in Titles \cup {<<>>, LongTitle}}
                    \cup {[same EXCEPT !.description = x] :
                             x \in Descriptions \cup {LongDescription}}
                    \cup {[same EXCEPT !.priority = x] : x \in Priorities \cup {""}}
                    \cup {[same EXCEPT !.due_date = x] : x \in DueDates}
            ELSE {[id |-> id, title |-> <<"a">>, description |-> <<>>,
                   priority |-> PriorityMedium, due_date |-> Null, archived |-> FALSE]}
          : id \in Ids }

\* ----------------------------------------------------------------- state
\* db      the tasks table
\* serial  the next value of the id sequence
\* now     the clock
\* last    the call in flight: the operation, its arguments and what it
\*         returned, with the table and the clock as they were at the call
\*         (Idle: none), and the store call made to fail (NoFault: none)
\* chain   the run of successful status toggles of one task that the last
\*         calls form
\* deleted the ids deleted so far
\* calls   the calls that run concurrently: each one's position and locals
\*         (NoCalls: none)
VARIABLES db, serial, now, last, chain, deleted, calls

vars == <<db, serial, now, last, chain, deleted, calls>>

NoCalls == <<>>

Idle == [op |-> "idle", args |-> 0, err |-> ErrNone, out |-> NoTask, pre |-> <<>>, at |-> 0,
         fault |-> NoFault]

NoChain == [id |-> 0, n |-> 0, status0 |-> "", updated0 |-> Null]

Init ==
    /\ db = <<>>
    /\ serial = 1
    /\ now = 0
    /\ last = Idle
    /\ chain = NoChain
    /\ deleted = {}
    /\ calls = NoCalls

\* A handler that wrote to the store takes one tick.
Elapse(tbl) ==
    /\ tbl # db => now < MaxTime
    /\ now' = IF tbl # db THEN now + 1 ELSE now

CreateTask(req, fault) ==
    /\ last = Idle
    /\ UNCHANGED calls
    /\ serial <= MaxTasks
    /\ LET r == UcCreateTask(db, serial, req, now, fault)
       IN /\ Elapse(r.db)
          /\ db' = r.db
          /\ serial' = IF r.err = ErrNone THEN serial + 1 ELSE serial
          /\ last' = [op |-> "CreateTask", args |-> req, err |-> r.err, out |-> r.task,
                      pre |-> db, at |-> now, fault |-> fault]
    /\ chain' = NoChain
    /\ UNCHANGED deleted

UpdateTask(req, fault) ==
    /\ last = Idle
    /\ UNCHANGED calls
    /\ LET r == UcUpdateTask(db, req, now, fault)
       IN /\ Elapse(r.db)
          /\ db' = r.db
          /\ last' = [op |-> "UpdateTask", args |-> req, err |-> r.err, out |-> r.task,
                      pre |-> db, at |-> now, fault |-> fault]
    /\ chain' = NoChain
    /\ UNCHANGED <<serial, deleted>>

DeleteTask(id, fault) ==
    /\ last = Idle
    /\ UNCHANGED calls
    /\ LET r == UcDeleteTask(db, id, fault)
       IN /\ Elapse(r.db)
          /\ db' = r.db
          /\ deleted' = IF r.err = ErrNone THEN deleted \cup {id} ELSE deleted
          /\ last' = [op |-> "DeleteTask", args |-> id, err |-> r.err, out |-> NoTask,
                      pre |-> db, at |-> now, fault |-> fault]
    /\ chain' = NoChain
    /\ UNCHANGED serial

ToggleTaskStatus(id, fault) ==
    /\ last = Idle
    /\ UNCHANGED calls
    /\ LET r == UcToggleTaskStatus(db, id, now, fault)
       IN /\ Elapse(r.db)
          /\ db' = r.db
          /\ last' = [op |-> "ToggleTaskStatus", args |-> id, err |-> r.err, out |-> r.task,
                      pre |-> db, at |-> now, fault |-> fault]
          /\ chain' = IF r.err # ErrNone THEN NoChain
                      ELSE IF chain.id = id
                      THEN [chain EXCEPT !.n = @ + 1]
                      ELSE [id |-> id, n |-> 1, status0 |-> db[id].status,
                            updated0 |-> db[id].updated_at]
    /\ UNCHANGED <<serial, deleted>>

GetTaskByID(id, fault) ==
    /\ last = Idle
    /\ UNCHANGED calls
    /\ LET r == UcGetTaskByID(db, id, fault)
       IN last' = [op |-> "GetTaskByID", args |-> id, err |-> r.err, out |-> r.task,
                   pre |-> db, at |-> now, fault |-> fault]
    /\ UNCHANGED <<db, serial, now, chain, deleted>>

GetTasksStats(fault) ==
    /\ last = Idle
    /\ UNCHANGED calls
    /\ \E r \in AnGetTasksStats(db, now, fault) :
          last' = [op |-> "GetTasksStats", args |-> 0, err |-> r.err, out |-> r, pre |-> db,
                   at |-> now, fault |-> fault]
    /\ UNCHANGED <<db, serial, now, chain, deleted>>

GetDashboardStats(fault) ==
    /\ last = Idle
    /\ UNCHANGED calls
    /\ \E r \in AnGetDashboardStats(db, now, fault) :
          last' = [op |-> "GetDashboardStats", args |-> 0, err |-> r.err, out |-> r,
                   pre |-> db, at |-> now, fault |-> fault]
    /\ UNCHANGED <<db, serial, now, chain, deleted>>

\* The caller takes the response.
Return ==
    /\ last # Idle
    /\ last' = Idle
    /\ UNCHANGED <<db, serial, now, chain, deleted, calls>>

\* Time passes between calls.
Tick ==
    /\ last = Idle
    /\ UNCHANGED calls
    /\ now < MaxTime
    /\ now' = now + 1
    /\ UNCHANGED <<db, serial, last, chain, deleted>>

Next ==
    \/ \E req \in CreateRequests : CreateTask(req, NoFault)
    \/ \E req \in UpdateRequests(db) : UpdateTask(req, NoFault)
    \/ \E id \in Ids : DeleteTask(id, NoFault)
    \/ \E id \in Ids : ToggleTaskStatus(id, NoFault)
    \/ \E id \in Ids : GetTaskByID(id, NoFault)
    \/ GetTasksStats(NoFault)
    \/ GetDashboardStats(NoFault)
    \/ Return
    \/ Tick

Spec == Init /\ [][Next]_vars

\* ====================================================== query specification
\* The read operations, on every table that a run of creations and toggles
\* of the sample requests leaves behind, at several later times.
MaxQueryTasks == 4

SampleRequest(i) ==
    CASE i = 1 -> CreateTaskRequest(<<"a">>, <<>>, PriorityLow, Null)
      [] i = 2 -> CreateTaskRequest(<<"b">>, <<"B">>, PriorityHigh, 9)
      [] i = 3 -> CreateTaskRequest(<<"a">>, <<>>, PriorityMedium, 24)
      [] i = 4 -> CreateTaskRequest(<<"b">>, <<>>, PriorityLow, 10)
      [] OTHER -> CreateTaskRequest(<<"a">>, <<"B">>, PriorityHigh, 20 + i)

QueryTimes == {8, 9, 15, 25}

\* The table after creating the first n sample requests, one per tick.
RECURSIVE Created(_)
Created(n) ==
    IF n = 0 THEN <<>>
    ELSE UcCreateTask(Created(n - 1), n, SampleRequest(n), n - 1, NoFault).db

\* The table after toggling the tasks of ids, in ascending order, one per tick
\* from time t.
RECURSIVE Toggled(_, _, _)
Toggled(tbl, ids, t) ==
    IF ids = {} THEN tbl
    ELSE LET id == CHOOSE i \in ids : \A j \in ids : i <= j
         IN Toggled(UcToggleTaskStatus(tbl, id, t, NoFault).db, ids \ {id}, t + 1)

InitQuery ==
    \E n \in 0..MaxQueryTasks : \E ids \in SUBSET (1..n) : \E t \in QueryTimes :
        /\ t >= n + Cardinality(ids)
        /\ db = Toggled(Created(n), ids, n)
        /\ serial = n + 1
        /\ now = t
        /\ last = Idle
        /\ chain = NoChain
        /\ deleted = {}
        /\ calls = NoCalls

TaskFilter(status, priority, dateType, dueFrom, dueTo) ==
    [status |-> status, priority |-> priority, date_type |-> dateType, search |-> <<>>,
     due_from |-> dueFrom, due_to |-> dueTo, archived |-> FALSE]

TaskSort(field, order) == [field |-> field, order |-> order]

NoFilter == TaskFilter("", "", DateFilterAll, Null, Null)
DefaultSort == TaskSort(SortFieldCreatedAt, SortOrderDesc)

\* ---------------------------------------------------------- App bindings
ErrInvalidArgument == "invalid_argument"

\* The filter literals of the bindings set Status or Priority and Archived
\* only; every other field keeps its zero value.
ZeroFilter ==
    [status |-> "", priority |-> "", date_type |-> "", search |-> <<>>,
     due_from |-> Null, due_to |-> Null, archived |-> FALSE]

AppGetAllTasks(tbl, t, fault) ==
    UcGetTasks(tbl, ZeroFilter, TaskSort(SortFieldCreatedAt, SortOrderDesc), t, fault)

AppGetTasksByStatus(tbl, status, t, fault) ==
    LET taskStatus == CASE status = "active" -> TaskStatusActive
                        [] status = "completed" -> TaskStatusCompleted
                        [] OTHER -> TaskStatusActive
    IN UcGetTasks(tbl, [ZeroFilter EXCEPT !.status = taskStatus],
                  TaskSort(SortFieldCreatedAt, SortOrderDesc), t, fault)

AppGetTasksByPriority(tbl, priorityStr, t, fault) ==
    IF priorityStr \notin {"low", "medium", "high"}
    THEN {[err |-> ErrInvalidArgument, tasks |-> <<>>]}
    ELSE UcGetTasks(tbl, [ZeroFilter EXCEPT !.priority = priorityStr],
                    TaskSort(SortFieldCreatedAt, SortOrderDesc), t, fault)

AppGetArchivedTasks(tbl, t, fault) ==
    UcGetTasks(tbl, [ZeroFilter EXCEPT !.archived = TRUE],
               TaskSort(SortFieldUpdatedAt, SortOrderDesc), t, fault)

\* AnalyticsUseCaseImpl.GetTasksByPriority: the active tasks in three groups.
AnGetTasksByPriority(tbl, t, fault) ==
    {IF r.err # ErrNone THEN [err |-> r.err, groups |-> <<>>]
     ELSE [err |-> ErrNone,
           groups |-> [p \in {PriorityLow, PriorityMedium, PriorityHigh} |->
                          SelectSeq(r.tasks, LAMBDA task : task.priority = p)]] :
        r \in SvcGetAllTasks(tbl, [ZeroFilter EXCEPT !.status = TaskStatusActive],
                             TaskSort(SortFieldPriority, SortOrderDesc), t, fault = 1)}

AnGetOverdueTasks(tbl, t, fault) ==
    {IF r.err # ErrNone THEN [err |-> r.err, tasks |-> <<>>]
     ELSE [err |-> ErrNone,
           tasks |-> SelectSeq(r.tasks,
                               LAMBDA task : /\ task.due_date # Null
                                             /\ Before(task.due_date, t)
                                             /\ task.status = TaskStatusActive)] :
        r \in SvcGetAllTasks(tbl, [ZeroFilter EXCEPT !.status = TaskStatusActive,
                                                     !.date_type = DateFilterOverdue],
                             TaskSort(SortFieldDueDate, SortOrderAsc), t, fault = 1)}

\* The two lists are asked for with the range of the period and no date
\* mode; a failure of GetOverdueTasks only leaves its figures out.
AnGetCompletionRates(tbl, period, t, fault) ==
    LET fromDate == CASE period = "week" -> t - 7 * Day
                      [] period = "year" -> t - 365 * Day
                      [] OTHER -> t - 30 * Day
        allFilter == [ZeroFilter EXCEPT !.due_from = fromDate, !.due_to = t]
        completedFilter == [allFilter EXCEPT !.status = TaskStatusCompleted]
    IN {IF a.err # ErrNone THEN [err |-> a.err]
        ELSE IF c.err # ErrNone THEN [err |-> c.err]
        ELSE [err |-> ErrNone,
              total_tasks |-> Len(a.tasks),
              completed_tasks |-> Len(c.tasks),
              active_tasks |-> Len(a.tasks) - Len(c.tasks),
              overdue_tasks |-> IF o.err = ErrNone THEN Len(o.tasks) ELSE Null] :
           a \in SvcGetAllTasks(tbl, allFilter, DefaultSort, t, fault = 1),
           c \in SvcGetAllTasks(tbl, completedFilter, DefaultSort, t, fault = 2),
           o \in AnGetOverdueTasks(tbl, t, IF fault = 3 THEN 1 ELSE NoFault)}

StatusStrings == {"active", "completed", "done"}
PriorityStrings == {"low", "medium", "high", "urgent"}
QueryFaults == {NoFault, 1}

Filters ==
    {TaskFilter(st, pr, dt, from, to) :
        st \in {"", TaskStatusActive, TaskStatusCompleted},
        pr \in {"", PriorityHigh, PriorityLow},
        dt \in {DateFilterAll, DateFilterToday, DateFilterWeek, DateFilterOverdue},
        from \in {Null, 10}, to \in {Null, 10}}
    \cup {TaskFilter("done", "", DateFilterAll, Null, Null),
          TaskFilter("", "", "", Null, Null),
          TaskFilter("", "", DateFilterAll, 10, 9),
          TaskFilter("", "urgent", DateFilterAll, Null, Null),
          TaskFilter("", "", "tomorrow", Null, Null),
          [NoFilter EXCEPT !.archived = TRUE]}

Sorts ==
    {TaskSort(f, o) :
        f \in {SortFieldCreatedAt, SortFieldUpdatedAt, SortFieldPriority, SortFieldDueDate,
               SortFieldTitle, SortFieldStatus},
        o \in {SortOrderAsc, SortOrderDesc}}
    \cup {TaskSort("bogus", SortOrderAsc), TaskSort(SortFieldTitle, "up"), TaskSort("", "")}

Queries == {<<f, DefaultSort>> : f \in Filters} \cup {<<NoFilter, srt>> : srt \in Sorts}

PagedQueries ==
    {<<NoFilter, DefaultSort>>,
     <<NoFilter, TaskSort(SortFieldTitle, SortOrderAsc)>>,
     <<TaskFilter(TaskStatusActive, "", DateFilterAll, Null, Null), DefaultSort>>,
     <<NoFilter, TaskSort("bogus", SortOrderAsc)>>}

\* 2^62 + 1
HugePage == <<1, 0, 0, 0, 0, 0, 0, 64>>
Pages == {Int64Neg(Int64(1)), Int64(0), Int64(1), Int64(2), Int64(3), HugePage}
Limits == {Int64(0), Int64(1), Int64(2), Int64(3), Int64(101)}

GetAll(filter, sort) ==
    /\ last = Idle
    /\ UNCHANGED calls
    /\ \E ts \in RepoGetAll(db, filter, sort, now) :
          last' = [op |-> "GetAll", args |-> [filter |-> filter, sort |-> sort],
                   err |-> ErrNone, out |-> ts, pre |-> db, at |-> now, fault |-> NoFault]
    /\ UNCHANGED <<db, serial, now, chain, deleted>>

GetTasks(filter, sort, fault) ==
    /\ last = Idle
    /\ UNCHANGED calls
    /\ \E r \in UcGetTasks(db, filter, sort, now, fault) :
          last' = [op |-> "GetTasks", args |-> [filter |-> filter, sort |-> sort],
                   err |-> r.err, out |-> r.tasks, pre |-> db, at |-> now, fault |-> fault]
    /\ UNCHANGED <<db, serial, now, chain, deleted>>

GetTasksWithPagination(filter, sort, page, limit, fault) ==
    /\ last = Idle
    /\ UNCHANGED calls
    /\ \E r \in UcGetTasksWithPagination(db, filter, sort, page, limit, now, fault) :
          last' = [op |-> "GetTasksWithPagination",
                   args |-> [filter |-> filter, sort |-> sort, page |-> page, limit |-> limit],
                   err |-> r.err, out |-> r, pre |-> db, at |-> now, fault |-> fault]
    /\ UNCHANGED <<db, serial, now, chain, deleted>>

App_GetAllTasks(fault) ==
    /\ last = Idle
    /\ UNCHANGED calls
    /\ \E r \in AppGetAllTasks(db, now, fault) :
          last' = [op |-> "App.GetAllTasks", args |-> 0, err |-> r.err, out |-> r.tasks,
                   pre |-> db, at |-> now, fault |-> fault]
    /\ UNCHANGED <<db, serial, now, chain, deleted>>

App_GetTasksByStatus(status, fault) ==
    /\ last = Idle
    /\ UNCHANGED calls
    /\ \E r \in AppGetTasksByStatus(db, status, now, fault) :
          last' = [op |-> "App.GetTasksByStatus", args |-> status, err |-> r.err,
                   out |-> r.tasks, pre |-> db, at |-> now, fault |-> fault]
    /\ UNCHANGED <<db, serial, now, chain, deleted>>

App_GetTasksByPriority(priorityStr, fault) ==
    /\ last = Idle
    /\ UNCHANGED calls
    /\ \E r \in AppGetTasksByPriority(db, priorityStr, now, fault) :
          last' = [op |-> "App.GetTasksByPriority", args |-> priorityStr, err |-> r.err,
                   out |-> r.tasks, pre |-> db, at |-> now, fault |-> fault]
    /\ UNCHANGED <<db, serial, now, chain, deleted>>

App_GetArchivedTasks(fault) ==
    /\ last = Idle
    /\ UNCHANGED calls
    /\ \E r \in AppGetArchivedTasks(db, now, fault) :
          last' = [op |-> "App.GetArchivedTasks", args |-> 0, err |-> r.err,
                   out |-> r.tasks, pre |-> db, at |-> now, fault |-> fault]
    /\ UNCHANGED <<db, serial, now, chain, deleted>>

GetTasksByPriority(fault) ==
    /\ last = Idle
    /\ UNCHANGED calls
    /\ \E r \in AnGetTasksByPriority(db, now, fault) :
          last' = [op |-> "GetTasksByPriority", args |-> 0, err |-> r.err,
                   out |-> r.groups, pre |-> db, at |-> now, fault |-> fault]
    /\ UNCHANGED <<db, serial, now, chain, deleted>>

GetOverdueTasks(fault) ==
    /\ last = Idle
    /\ UNCHANGED calls
    /\ \E r \in AnGetOverdueTasks(db, now, fault) :
          last' = [op |-> "GetOverdueTasks", args |-> 0, err |-> r.err, out |-> r.tasks,
                   pre |-> db, at |-> now, fault |-> fault]
    /\ UNCHANGED <<db, serial, now, chain, deleted>>

GetCompletionRates(period, fault) ==
    /\ last = Idle
    /\ UNCHANGED calls
    /\ \E r \in AnGetCompletionRates(db, period, now, fault) :
          last' = [op |-> "GetCompletionRates", args |-> period, err |-> r.err, out |-> r,
                   pre |-> db, at |-> now, fault |-> fault]
    /\ UNCHANGED <<db, serial, now, chain, deleted>>

NextQuery ==
    \/ \E q \in Queries : GetAll(q[1], q[2])
    \/ \E q \in Queries : \E fault \in QueryFaults : GetTasks(q[1], q[2], fault)
    \/ \E q \in PagedQueries : \E page \in Pages : \E limit \in Limits :
          \E fault \in QueryFaults : GetTasksWithPagination(q[1], q[2], page, limit, fault)
    \/ \E id \in -1..MaxQueryTasks : \E fault \in QueryFaults : GetTaskByID(id, fault)
    \/ \E fault \in QueryFaults : App_GetAllTasks(fault)
    \/ \E status \in StatusStrings : \E fault \in QueryFaults :
          App_GetTasksByStatus(status, fault)
    \/ \E priorityStr \in PriorityStrings : \E fault \in QueryFaults :
          App_GetTasksByPriority(priorityStr, fault)
    \/ \E fault \in QueryFaults : App_GetArchivedTasks(fault)
    \/ \E fault \in QueryFaults : GetTasksByPriority(fault)
    \/ \E fault \in QueryFaults : GetOverdueTasks(fault)
    \/ \E fault \in 0..3 : GetDashboardStats(fault)
    \/ Return

SpecQuery == InitQuery /\ [][NextQuery]_vars

\* ================================================== dashboard specification
\* GetDashboardStats on tables that hold more tasks than the lists show.
InitDash ==
    \E n \in 0..(RecentLimit + 2) : \E ids \in SUBSET ({2, 5, 6} \cap 1..n) : \E t \in QueryTimes :
        /\ t >= n + Cardinality(ids)
        /\ db = Toggled(Created(n), ids, n)
        /\ serial = n + 1
        /\ now = t
        /\ last = Idle
        /\ chain = NoChain
        /\ deleted = {}
        /\ calls = NoCalls

NextDash ==
    \/ \E fault \in 0..3 : GetDashboardStats(fault)
    \/ GetTasksStats(NoFault)
    \/ Return

SpecDash == InitDash /\ [][NextDash]_vars

\* ==================================================== binding specification
\* The bindings of App that the front end calls, on the table they build.

\* time.Parse("2006-01-02", deadline): midnight of the day named.
ParseDeadline(deadline) ==
    CASE deadline = "D0" -> [err |-> ErrNone, date |-> 0]
      [] deadline = "D1" -> [err |-> ErrNone, date |-> Day]
      [] deadline = "D2" -> [err |-> ErrNone, date |-> 2 * Day]
      [] OTHER -> [err |-> ErrInvalidArgument, date |-> Null]

PriorityOrDefault(priorityStr) ==
    CASE priorityStr = "low" -> PriorityLow
      [] priorityStr = "medium" -> PriorityMedium
      [] priorityStr = "high" -> PriorityHigh
      [] OTHER -> PriorityMedium

AppCreateTask(tbl, serialNo, title, description, priorityStr, deadline, t, fault) ==
    LET parsed == IF deadline # "" THEN ParseDeadline(deadline)
                  ELSE [err |-> ErrNone, date |-> Null]
    IN IF parsed.err # ErrNone THEN [db |-> tbl, err |-> parsed.err, task |-> NoTask]
       ELSE UcCreateTask(tbl, serialNo,
                         CreateTaskRequest(title, description,
                                           PriorityOrDefault(priorityStr), parsed.date),
                         t, fault)

AppUpdateTask(tbl, id, title, description, priorityStr, deadline, t, fault) ==
    LET parsed == IF deadline # "" THEN ParseDeadline(deadline)
                  ELSE [err |-> ErrNone, date |-> Null]
    IN IF parsed.err # ErrNone THEN [db |-> tbl, err |-> parsed.err, task |-> NoTask]
       ELSE UcUpdateTask(tbl,
                         [id |-> id, title |-> title, description |-> description,
                          priority |-> PriorityOrDefault(priorityStr),
                          due_date |-> parsed.date, archived |-> FALSE],
                         t, fault)

\* The store calls of GetTaskByID come before those of UpdateTask.
AppArchiveTask(tbl, id, t, fault) ==
    LET g == UcGetTaskByID(tbl, id, fault)
    IN IF g.err # ErrNone THEN [db |-> tbl, err |-> g.err, task |-> NoTask]
       ELSE IF g.task.status # TaskStatusCompleted
       THEN [db |-> tbl, err |-> ErrConflict, task |-> NoTask]
       ELSE UcUpdateTask(tbl,
                         [id |-> id, title |-> g.task.title,
                          description |-> g.task.description,
                          priority |-> g.task.priority,
                          due_date |-> g.task.due_date, archived |-> TRUE],
                         t, IF fault > 1 THEN fault - 1 ELSE NoFault)

App_CreateTask(title, description, priorityStr, deadline, fault) ==
    /\ last = Idle
    /\ UNCHANGED calls
    /\ serial <= MaxTasks
    /\ LET r == AppCreateTask(db, serial, title, description, priorityStr, deadline, now, fault)
       IN /\ Elapse(r.db)
          /\ db' = r.db
          /\ serial' = IF r.err = ErrNone THEN serial + 1 ELSE serial
          /\ last' = [op |-> "App.CreateTask",
                      args |-> [title |-> title, description |-> description,
                                priorityStr |-> priorityStr, deadline |-> deadline],
                      err |-> r.err, out |-> r.task, pre |-> db, at |-> now,
                      fault |-> fault]
    /\ chain' = NoChain
    /\ UNCHANGED deleted

App_UpdateTask(id, title, description, priorityStr, deadline, fault) ==
    /\ last = Idle
    /\ UNCHANGED calls
    /\ LET r == AppUpdateTask(db, id, title, description, priorityStr, deadline, now, fault)
       IN /\ Elapse(r.db)
          /\ db' = r.db
          /\ last' = [op |-> "App.UpdateTask",
                      args |-> [id |-> id, title |-> title, description |-> description,
                                priorityStr |-> priorityStr, deadline |-> deadline],
                      err |-> r.err, out |-> r.task, pre |-> db, at |-> now,
                      fault |-> fault]
    /\ chain' = NoChain
    /\ UNCHANGED <<serial, deleted>>

App_ArchiveTask(id, fault) ==
    /\ last = Idle
    /\ UNCHANGED calls
    /\ LET r == AppArchiveTask(db, id, now, fault)
       IN /\ Elapse(r.db)
          /\ db' = r.db
          /\ last' = [op |-> "App.ArchiveTask", args |-> id, err |-> r.err, out |-> r.task,
                      pre |-> db, at |-> now, fault |-> fault]
    /\ chain' = NoChain
    /\ UNCHANGED <<serial, deleted>>

DeadlineStrings == {"", "D1", "tomorrow"}

NextApp ==
    \/ \E priorityStr \in {"low", "high", "urgent", ""} : \E deadline \in DeadlineStrings :
          \E fault \in {NoFault, 1} :
             App_CreateTask(<<"a">>, <<>>, priorityStr, deadline, fault)
    \/ \E id \in Ids : \E title \in Titles : \E priorityStr \in {"low", "urgent"} :
          \E deadline \in DeadlineStrings :
             App_UpdateTask(id, title, <<"B">>, priorityStr, deadline, NoFault)
    \/ \E id \in Ids : \E title \in Titles : \E fault \in 1..3 :
          App_UpdateTask(id, title, <<"B">>, "low", "", fault)
    \/ \E id \in Ids : \E fault \in 0..4 : ToggleTaskStatus(id, fault)
    \/ \E id \in Ids : \E fault \in 0..4 : App_ArchiveTask(id, fault)
    \/ \E id \in Ids : \E fault \in 0..3 : DeleteTask(id, fault)
    \/ \E id \in Ids : \E fault \in {NoFault, 1} : GetTaskByID(id, fault)
    \/ \E fault \in 0..3 : GetDashboardStats(fault)
    \/ \E fault \in {NoFault, 1} : GetOverdueTasks(fault)
    \/ \E period \in {"week", "month"} : \E fault \in 0..3 : GetCompletionRates(period, fault)
    \/ \E status \in StatusStrings : App_GetTasksByStatus(status, NoFault)
    \/ \E priorityStr \in PriorityStrings : App_GetTasksByPriority(priorityStr, NoFault)
    \/ App_GetArchivedTasks(NoFault)
    \/ Return
    \/ Tick

SpecApp == Init /\ [][NextApp]_vars

\* =================================================== concurrent specification
\* Calls of the use case made from goroutines on the same stored task: one
\* UpdateTask and one ToggleTaskStatus, or two ToggleTaskStatus.  Each
\* statement sent to the store is one step, and so is each reading of the
\* clock whose value a statement writes; what a call computes otherwise
\* belongs to the step that follows.  calls.pre is the table when the calls
\* started, and over the status that a toggle's statement wrote over.
ConcRequests ==
    { [id |-> 1, title |-> <<"b">>, description |-> <<"B">>, priority |-> PriorityHigh,
       due_date |-> Null, archived |-> FALSE],
      [id |-> 1, title |-> <<"a">>, description |-> <<"B">>, priority |-> PriorityLow,
       due_date |-> Null, archived |-> FALSE],
      [id |-> 1, title |-> <<"a">>, description |-> <<>>, priority |-> PriorityLow,
       due_date |-> Day, archived |-> FALSE] }

Togglers == {"toggle", "toggle2"}

InitConc ==
    \E completed \in BOOLEAN : \E req \in ConcRequests : \E second \in BOOLEAN :
        /\ db = IF completed THEN Toggled(Created(1), {1}, 1) ELSE Created(1)
        /\ serial = 2
        /\ now = 1
        /\ last = Idle
        /\ chain = NoChain
        /\ deleted = {}
        /\ calls = [pre |-> db,
                    update |-> [pc |-> IF second THEN "absent" ELSE "start",
                                req |-> req, existing |-> NoTask, stamp |-> Null,
                                err |-> ErrNone, out |-> NoTask],
                    toggle |-> [pc |-> "start", id |-> 1, task |-> NoTask, stamp |-> Null,
                                over |-> "", err |-> ErrNone, out |-> NoTask],
                    toggle2 |-> [pc |-> IF second THEN "start" ELSE "absent",
                                 id |-> 1, task |-> NoTask, stamp |-> Null,
                                 over |-> "", err |-> ErrNone, out |-> NoTask]]

\* TaskUseCaseImpl.UpdateTask up to the answer of taskService.GetTaskByID.
UpdateTask_Find ==
    /\ calls # NoCalls
    /\ calls.update.pc = "start"
    /\ LET req == calls.update.req
           e == IF ValidateUpdateTaskRequest(req, now) # ErrNone
                THEN [err |-> ErrValidation, task |-> NoTask]
                ELSE SvcGetTaskByID(db, req.id, FALSE)
       IN calls' = [calls EXCEPT !.update =
                       IF e.err # ErrNone THEN [@ EXCEPT !.pc = "done", !.err = e.err]
                       ELSE [@ EXCEPT !.pc = "found", !.existing = e.task]]
    /\ UNCHANGED <<db, serial, now, last, chain, deleted>>

\* The business rules of the use case, then TaskServiceImpl.UpdateTask up to
\* the answer of repo.GetByID and the copy of the request into the task.
UpdateTask_Load ==
    /\ calls # NoCalls
    /\ calls.update.pc = "found"
    /\ LET req == calls.update.req
           seen == calls.update.existing
           g == RepoGetByID(db, req.id, FALSE)
           err == IF req.due_date # Null /\ Before(req.due_date, now - Day)
                  THEN ErrValidation
                  ELSE IF /\ seen.status = TaskStatusCompleted
                          /\ (req.title # seen.title \/ req.priority # seen.priority)
                  THEN ErrConflict
                  ELSE IF ValidateUpdateTaskRequest(req, now) # ErrNone
                  THEN ErrValidation
                  ELSE g.err
       IN calls' = [calls EXCEPT !.update =
                       IF err # ErrNone THEN [@ EXCEPT !.pc = "done", !.err = err]
                       ELSE [@ EXCEPT !.pc = "loaded",
                                      !.existing = [g.task EXCEPT
                                                       !.title = req.title,
                                                       !.description = req.description,
                                                       !.priority = req.priority,
                                                       !.due_date = req.due_date,
                                                       !.updated_at = now]]]
    /\ UNCHANGED <<db, serial, now, last, chain, deleted>>

\* task.UpdatedAt = time.Now() of repo.Update, before the statement is sent.
UpdateTask_Stamp ==
    /\ calls # NoCalls
    /\ calls.update.pc = "loaded"
    /\ calls' = [calls EXCEPT !.update = [@ EXCEPT !.pc = "stamped", !.stamp = now]]
    /\ UNCHANGED <<db, serial, now, last, chain, deleted>>

\* The statement of repo.Update and the return through the service and the
\* use case.
UpdateTask_Store ==
    /\ calls # NoCalls
    /\ calls.update.pc = "stamped"
    /\ LET r == RepoUpdate(db, calls.update.existing, calls.update.stamp, FALSE)
       IN /\ db' = r.db
          /\ calls' = [calls EXCEPT !.update = [@ EXCEPT !.pc = "done", !.err = r.err,
                                                         !.out = r.task]]
    /\ UNCHANGED <<serial, now, last, chain, deleted>>

\* TaskUseCaseImpl.ToggleTaskStatus up to the answer of
\* taskService.GetTaskByID.
ToggleTaskStatus_Find(p) ==
    /\ calls # NoCalls
    /\ calls[p].pc = "start"
    /\ LET e == UcGetTaskByID(db, calls[p].id, NoFault)
       IN calls' = [calls EXCEPT ![p] =
                       IF e.err # ErrNone THEN [@ EXCEPT !.pc = "done", !.err = e.err]
                       ELSE [@ EXCEPT !.pc = "found"]]
    /\ UNCHANGED <<db, serial, now, last, chain, deleted>>

\* TaskServiceImpl.ToggleTaskStatus up to the answer of repo.GetByID.
ToggleTaskStatus_Load(p) ==
    /\ calls # NoCalls
    /\ calls[p].pc = "found"
    /\ LET g == SvcGetTaskByID(db, calls[p].id, FALSE)
       IN calls' = [calls EXCEPT ![p] =
                       IF g.err # ErrNone THEN [@ EXCEPT !.pc = "done", !.err = g.err]
                       ELSE [@ EXCEPT !.pc = "loaded", !.task = g.task]]
    /\ UNCHANGED <<db, serial, now, last, chain, deleted>>

\* now := time.Now() of repo.MarkAsCompleted or repo.MarkAsActive, before
\* the statement is sent.
ToggleTaskStatus_Stamp(p) ==
    /\ calls # NoCalls
    /\ calls[p].pc = "loaded"
    /\ calls' = [calls EXCEPT ![p] = [@ EXCEPT !.pc = "stamped", !.stamp = now]]
    /\ UNCHANGED <<db, serial, now, last, chain, deleted>>

\* The statement of repo.MarkAsCompleted or repo.MarkAsActive, by the status
\* that was loaded.
ToggleTaskStatus_Mark(p) ==
    /\ calls # NoCalls
    /\ calls[p].pc = "stamped"
    /\ LET m == IF calls[p].task.status = TaskStatusActive
                THEN RepoMarkAsCompleted(db, calls[p].id, calls[p].stamp, FALSE)
                ELSE RepoMarkAsActive(db, calls[p].id, calls[p].stamp, FALSE)
       IN /\ db' = m.db
          /\ calls' = [calls EXCEPT ![p] =
                          IF m.err # ErrNone THEN [@ EXCEPT !.pc = "done", !.err = m.err]
                          ELSE [@ EXCEPT !.pc = "marked",
                                         !.over = db[calls[p].id].status]]
    /\ UNCHANGED <<serial, now, last, chain, deleted>>

\* The second repo.GetByID, whose row is the answer of the call.
ToggleTaskStatus_Refetch(p) ==
    /\ calls # NoCalls
    /\ calls[p].pc = "marked"
    /\ LET u == RepoGetByID(db, calls[p].id, FALSE)
       IN calls' = [calls EXCEPT ![p] = [@ EXCEPT !.pc = "done", !.err = u.err,
                                                     !.out = u.task]]
    /\ UNCHANGED <<db, serial, now, last, chain, deleted>>

NextConc ==
    \/ UpdateTask_Find
    \/ UpdateTask_Load
    \/ UpdateTask_Stamp
    \/ UpdateTask_Store
    \/ \E p \in Togglers : ToggleTaskStatus_Find(p)
    \/ \E p \in Togglers : ToggleTaskStatus_Load(p)
    \/ \E p \in Togglers : ToggleTaskStatus_Stamp(p)
    \/ \E p \in Togglers : ToggleTaskStatus_Mark(p)
    \/ \E p \in Togglers : ToggleTaskStatus_Refetch(p)
    \/ Tick

SpecConc == InitConc /\ [][NextConc]_vars

\* ================================================================ claims
WellFormedFields(req) ==
    /\ Len(req.title) >= 1 /\ Len(req.title) <= 255
    /\ Len(req.description) <= 1000
    /\ req.priority \in {"low", "medium", "high"}

Succeeded(op) == last.op = op /\ last.err = ErrNone

\* C1: a createTask request with a title of 1-255 characters, a description
\* of at most 1000 characters, no due date and an empty priority succeeds,
\* and the returned and the stored task have priority medium, status active
\* and no completed_at.
C1_CreationDefault ==
    ( /\ last.op = "CreateTask"
      /\ Len(last.args.title) >= 1 /\ Len(last.args.title) <= 255
      /\ Len(last.args.description) <= 1000
      /\ last.args.due_date = Null
      /\ last.args.priority = "" )
    => /\ last.err = ErrNone
       /\ last.out.priority = "medium"
       /\ last.out.status = "active"
       /\ last.out.completed_at = Null
       /\ last.out.id \in DOMAIN db
       /\ db[last.out.id].priority = "medium"
       /\ db[last.out.id].status = "active"
       /\ db[last.out.id].completed_at = Null

\* C2: in every reachable state every stored task has a completed_at exactly
\* when its status is completed.
C2_CompletedAtIffCompleted ==
    \A id \in DOMAIN db : (db[id].completed_at # Null) <=> (db[id].status = "completed")

C2_Witness ==
    /\ Succeeded("ToggleTaskStatus")
    /\ chain.n = 1
    /\ chain.id \in DOMAIN db
    /\ db[chain.id].status = "completed"
    /\ db[chain.id].completed_at = last.at

\* C3: toggling an active task once returns it completed with a completed_at;
\* toggling it a second time returns it active without completed_at and with
\* an updated_at later than the one it had before the first toggle.
C3_ToggleTwice ==
    (Succeeded("ToggleTaskStatus") /\ chain.status0 = "active")
    => /\ chain.n = 1 => /\ last.out.status = "completed"
                         /\ last.out.completed_at # Null
       /\ chain.n = 2 => /\ last.out.status = "active"
                         /\ last.out.completed_at = Null
                         /\ last.out.updated_at > chain.updated0

C3_Witness ==
    /\ Succeeded("ToggleTaskStatus")
    /\ chain.status0 = "active"
    /\ chain.n = 2
    /\ last.out.status = "active"

C7_StatusBreakdown ==
    (Succeeded("GetDashboardStats") /\ \E id \in DOMAIN db : db[id].status = "completed")
    => last.out.status_breakdown["completed"] >= 1

\* C8: a successful deleteTask removes the task and leaves every other stored
\* task as it was, and every later getTaskByID of a deleted id fails with
\* not-found.
C8_DeleteThenNotFound ==
    /\ Succeeded("DeleteTask") =>
          /\ last.args \notin DOMAIN db
          /\ \A i \in DOMAIN last.pre \ {last.args} : i \in DOMAIN db /\ db[i] = last.pre[i]
    /\ (last.op = "GetTaskByID" /\ last.args \in deleted) => last.err = ErrNotFound

C8_Witness ==
    /\ last.op = "GetTaskByID"
    /\ last.args \in deleted
    /\ last.err = ErrNotFound
    /\ DOMAIN db # {}

\* C9: getStats returns the number of stored tasks as total, the number of
\* active and of completed tasks, and total = active + completed.
C9_StatsConsistency ==
    Succeeded("GetTasksStats")
    => LET st == last.out.stats
       IN /\ st.total_tasks = Cardinality(DOMAIN db)
          /\ st.active_tasks = Cardinality({i \in DOMAIN db : db[i].status = "active"})
          /\ st.completed_tasks = Cardinality({i \in DOMAIN db : db[i].status = "completed"})
          /\ st.total_tasks = st.active_tasks + st.completed_tasks

C9_Witness ==
    /\ Succeeded("GetTasksStats")
    /\ last.out.stats.active_tasks = 1
    /\ last.out.stats.completed_tasks = 1
    /\ \E i \in DOMAIN db : db[i].due_date # Null

Severity(p) == CASE p = "high" -> 3 [] p = "medium" -> 2 [] p = "low" -> 1

IsList(op) == (op = "GetAll" \/ op = "GetTasks") /\ last.op = op /\ last.err = ErrNone

\* C5: a list sorted by priority descending has every high task before every
\* medium task before every low task, and sorted ascending has every low task
\* before every medium task before every high task.
C5_PrioritySeverityOrder ==
    \A op \in {"GetAll", "GetTasks"} :
        (IsList(op) /\ last.args.sort.field = "priority")
        => \A i, j \in 1..Len(last.out) : i < j =>
              IF last.args.sort.order = "desc"
              THEN Severity(last.out[i].priority) >= Severity(last.out[j].priority)
              ELSE Severity(last.out[i].priority) <= Severity(last.out[j].priority)

\* A task meets every predicate that a set field of the filter contributes,
\* at time t.
Satisfies(T, F, t) ==
    /\ F.status # "" => T.status = F.status
    /\ F.priority # "" => T.priority = F.priority
    /\ F.date_type = "today" => T.due_date # Null /\ T.due_date \div Day = t \div Day
    /\ F.date_type = "week" =>
          T.due_date # Null /\ T.due_date >= t /\ T.due_date <= t + 7 * Day
    /\ F.date_type = "overdue" =>
          T.status = "active" /\ T.due_date # Null /\ T.due_date < t
    /\ F.due_from # Null => T.due_date # Null /\ T.due_date >= F.due_from
    /\ F.due_to # Null => T.due_date # Null /\ T.due_date <= F.due_to

\* C6: a list contains each stored task once if the task satisfies every
\* predicate of a set filter field (status, priority, date mode, due_from,
\* due_to), and contains no other task.
C6_FilterConjunction ==
    \A op \in {"GetAll", "GetTasks"} :
        (IsList(op) /\ last.args.filter.search = <<>>)
        => /\ {last.out[k].id : k \in 1..Len(last.out)}
                = {i \in DOMAIN db : Satisfies(db[i], last.args.filter, last.at)}
           /\ \A i, j \in 1..Len(last.out) : i # j => last.out[i].id # last.out[j].id

C6_Witness ==
    /\ IsList("GetTasks")
    /\ last.args.filter.status = "active"
    /\ last.args.filter.date_type = "overdue"
    /\ last.args.filter.due_to # Null
    /\ Len(last.out) >= 1
    /\ \E i \in DOMAIN db :
          /\ db[i].status = "active" /\ db[i].due_date # Null /\ db[i].due_date < last.at
          /\ db[i].due_date > last.args.filter.due_to
          /\ \A k \in 1..Len(last.out) : last.out[k].id # i

\* C10: getTasksPaged with a valid filter and sort succeeds, reports the
\* length of the full list as total_count, and returns the elements of the
\* full list at positions [(p-1)*s, min(p*s, total)), where p = max(page, 1)
\* and s = pageSize if 1 <= pageSize <= 100 and 20 otherwise; it returns no
\* task when (p-1)*s >= total.
C10_Pagination ==
    (last.op = "GetTasksWithPagination" /\ last.fault = NoFault /\ last.err # ErrValidation)
    => LET page == last.args.page
           limit == last.args.limit
           all == last.out.all
           total == Len(all)
           large(x) == ~Int64IsNeg(x) /\ \E k \in 3..8 : x[k] # 0
           p == IF Int64IsNeg(page) \/ Int64Small(page) < 1 THEN 1 ELSE Int64Small(page)
           s == IF Int64IsNeg(limit) \/ large(limit) \/ Int64Small(limit) < 1
                   \/ Int64Small(limit) > 100
                THEN 20 ELSE Int64Small(limit)
           beyond == large(page) \/ (p - 1) * s >= total
           upto == IF p * s < total THEN p * s ELSE total
       IN /\ last.err = ErrNone
          /\ last.out.total_count = total
          /\ IF beyond THEN last.out.tasks = <<>>
             ELSE /\ Len(last.out.tasks) = upto - (p - 1) * s
                  /\ \A k \in 1..Len(last.out.tasks) :
                        last.out.tasks[k].id = all[(p - 1) * s + k].id

\* C11: createTask and updateTask with well-formed fields and a due_date d
\* do not fail validation when d is not earlier than one day before the time
\* of the call, and fail validation and change nothing when d is earlier.
C11_DueDateGraceWindow ==
    \A op \in {"CreateTask", "UpdateTask"} :
        ( /\ last.op = op
          /\ op = "UpdateTask" => last.args.id > 0
          /\ WellFormedFields(last.args)
          /\ last.args.due_date # Null )
        => IF last.args.due_date >= last.at - Day
           THEN last.err # ErrValidation
           ELSE last.err = ErrValidation /\ db = last.pre

\* C18: updateTask with a well-formed request, deleteTask, toggleStatus and
\* getTaskByID, called with a positive id that no stored task has, return a
\* not-found error and leave the table as it was.
C18_NotFound ==
    /\ ( /\ last.op = "UpdateTask"
         /\ last.args.id > 0
         /\ last.args.id \notin DOMAIN last.pre
         /\ WellFormedFields(last.args)
         /\ (last.args.due_date = Null \/ last.args.due_date >= last.at) )
       => last.err = ErrNotFound /\ db = last.pre
    /\ \A op \in {"DeleteTask", "ToggleTaskStatus", "GetTaskByID"} :
          (last.op = op /\ last.args > 0 /\ last.args \notin DOMAIN last.pre)
          => last.err = ErrNotFound /\ db = last.pre

C18_Witness ==
    /\ last.op = "UpdateTask"
    /\ last.args.id \in deleted
    /\ last.err = ErrNotFound
    /\ db # <<>>
    /\ db = last.pre

\* C19: a successful updateTask on an active task returns and stores the
\* title, description, priority and due_date of the request, and a
\* successful getTaskByID returns those fields as they are stored.
C19_UpdateReadBack ==
    /\ (Succeeded("UpdateTask") /\ last.pre[last.args.id].status = "active")
       => \A T \in {last.out, db[last.args.id]} :
             /\ T.id = last.args.id
             /\ T.title = last.args.title
             /\ T.description = last.args.description
             /\ T.priority = last.args.priority
             /\ T.due_date = last.args.due_date
    /\ Succeeded("GetTaskByID")
       => /\ last.out.id = last.args
          /\ last.out.title = db[last.args].title
          /\ last.out.description = db[last.args].description
          /\ last.out.priority = db[last.args].priority
          /\ last.out.due_date = db[last.args].due_date

C19_Witness ==
    /\ Succeeded("UpdateTask")
    /\ last.pre[last.args.id].status = "active"
    /\ last.args.description # last.pre[last.args.id].description
    /\ db[last.args.id].description = last.args.description
    /\ last.out.description = last.args.description

\* The filter or the sort has a field outside its enum, or a due-date range
\* with from after to.
InvalidShape(F, S) ==
    \/ F.status \notin {"", "active", "completed"}
    \/ F.priority \notin {"", "low", "medium", "high"}
    \/ F.date_type \notin {"", "all", "today", "week", "overdue"}
    \/ S.field \notin {"created_at", "updated_at", "priority", "due_date", "title", "status"}
    \/ S.order \notin {"asc", "desc"}
    \/ (F.due_from # Null /\ F.due_to # Null /\ F.due_from > F.due_to)

\* C12: getTasks and getTasksPaged with a filter or sort of invalid shape,
\* and getTaskByID with an id <= 0, return a validation error whether or not
\* the store would fail, so without a store call, and change nothing.
C12_InvalidShapeRejected ==
    /\ \A op \in {"GetTasks", "GetTasksWithPagination"} :
          (last.op = op /\ InvalidShape(last.args.filter, last.args.sort))
          => last.err = ErrValidation /\ db = last.pre
    /\ (last.op = "GetTaskByID" /\ last.args <= 0)
       => last.err = ErrValidation /\ db = last.pre

C12_Witness ==
    /\ last.op = "GetTasks"
    /\ last.args.sort.order = "up"
    /\ last.fault = 1
    /\ last.err = ErrValidation
    /\ db # <<>>

ResultIds(tasks) == {tasks[k].id : k \in 1..Len(tasks)}

\* C13: the list-all-tasks, list-by-status and list-by-priority bindings,
\* which leave the date mode of the filter unset, succeed and return every
\* stored task of the status or priority asked for, whatever its due date.
C13_DateModeOptional ==
    /\ (last.op = "App.GetAllTasks" /\ last.fault = NoFault)
       => last.err = ErrNone /\ ResultIds(last.out) = DOMAIN db
    /\ ( /\ last.op = "App.GetTasksByStatus" /\ last.fault = NoFault
         /\ last.args \in {"active", "completed"} )
       => /\ last.err = ErrNone
          /\ ResultIds(last.out) = {i \in DOMAIN db : db[i].status = last.args}
    /\ ( /\ last.op = "App.GetTasksByPriority" /\ last.fault = NoFault
         /\ last.args \in {"low", "medium", "high"} )
       => /\ last.err = ErrNone
          /\ ResultIds(last.out) = {i \in DOMAIN db : db[i].priority = last.args}

\* C15: a list returns only tasks whose archived flag is the one of the
\* filter: get-archived-tasks succeeds and returns exactly the stored tasks
\* with archived = TRUE, and list-all-tasks returns no such task.
C15_ArchivedPredicate ==
    /\ \A op \in {"GetAll", "GetTasks"} :
          IsList(op)
          => \A i \in ResultIds(last.out) : db[i].archived = last.args.filter.archived
    /\ (last.op = "App.GetArchivedTasks" /\ last.fault = NoFault)
       => /\ last.err = ErrNone
          /\ ResultIds(last.out) = {i \in DOMAIN db : db[i].archived}
    /\ (last.op = "App.GetAllTasks" /\ last.err = ErrNone)
       => \A i \in ResultIds(last.out) : ~db[i].archived

\* C20: getTasksByPriority succeeds and returns the three groups low, medium
\* and high, each holding exactly the stored active tasks of that priority.
C20_PriorityGroups ==
    (last.op = "GetTasksByPriority" /\ last.fault = NoFault)
    => /\ last.err = ErrNone
       /\ DOMAIN last.out = {"low", "medium", "high"}
       /\ \A p \in {"low", "medium", "high"} :
             /\ ResultIds(last.out[p])
                   = {i \in DOMAIN db : db[i].status = "active" /\ db[i].priority = p}
             /\ Len(last.out[p]) = Cardinality(ResultIds(last.out[p]))

\* C14: ArchiveTask on a stored completed task succeeds and leaves it stored
\* with archived = TRUE and every other field but updated_at as it was; on a
\* stored active task it fails and changes nothing.
C14_ArchiveCompleted ==
    (last.op = "App.ArchiveTask" /\ last.fault = NoFault /\ last.args \in DOMAIN last.pre)
    => LET old == last.pre[last.args]
       IN IF old.status = "completed"
          THEN /\ last.err = ErrNone
               /\ last.args \in DOMAIN db
               /\ db[last.args] = [old EXCEPT !.archived = TRUE,
                                              !.updated_at = db[last.args].updated_at]
               /\ \A i \in DOMAIN db \ {last.args} : db[i] = last.pre[i]
          ELSE last.err # ErrNone /\ db = last.pre

\* C16: a binding called with a priority or status string outside the
\* recognised values answers as it answers the default (medium, active):
\* CreateTask and UpdateTask store priority medium, and no binding fails
\* where the call with the default would not.
C16_EnumDefaults ==
    /\ ( /\ last.op = "App.CreateTask" /\ last.fault = NoFault
         /\ last.args.priorityStr \notin {"low", "medium", "high"} )
       => /\ last.err = AppCreateTask(last.pre, 1, last.args.title, last.args.description,
                                      "medium", last.args.deadline, last.at, NoFault).err
          /\ last.err = ErrNone => last.out.priority = "medium"
    /\ ( /\ last.op = "App.UpdateTask" /\ last.fault = NoFault
         /\ last.args.priorityStr \notin {"low", "medium", "high"} )
       => /\ last.err = AppUpdateTask(last.pre, last.args.id, last.args.title,
                                      last.args.description, "medium", last.args.deadline,
                                      last.at, NoFault).err
          /\ last.err = ErrNone => last.out.priority = "medium"
    /\ (last.op = "App.GetTasksByStatus" /\ last.args \notin {"active", "completed"})
       => [err |-> last.err, tasks |-> last.out]
             \in AppGetTasksByStatus(last.pre, "active", last.at, NoFault)
    /\ (last.op = "App.GetTasksByPriority" /\ last.args \notin {"low", "medium", "high"})
       => [err |-> last.err, tasks |-> last.out]
             \in AppGetTasksByPriority(last.pre, "medium", last.at, NoFault)

C21_IdentityStable ==
    /\ \A i \in DOMAIN db : db[i].id > 0 /\ db[i].id \notin deleted
    /\ \A i, j \in DOMAIN db : db[i].id = db[j].id => i = j
    /\ \A i \in DOMAIN db \cap DOMAIN last.pre : db[i].id = last.pre[i].id
    /\ (last.op \in {"App.UpdateTask", "ToggleTaskStatus", "App.ArchiveTask"}
        /\ last.err = ErrNone)
       => last.out.id = (IF last.op = "App.UpdateTask" THEN last.args.id ELSE last.args)

\* A task that was created and completed has gone through ArchiveTask.
C21_Witness ==
    /\ last.op = "App.ArchiveTask"
    /\ last.err = ErrNone
    /\ last.args \in DOMAIN db
    /\ db[last.args].status = "completed"

\* C22: only ToggleTaskStatus changes a status.  A call of any other
\* operation, UpdateTask included, failed or not, leaves the status,
\* completed_at, created_at and id of every task that stays stored, and
\* UpdateTask removes none; a successful ToggleTaskStatus leaves the title,
\* description, priority, due_date and created_at of every task.
C22_StatusFrame ==
    /\ last.op # "ToggleTaskStatus"
       => \A i \in DOMAIN last.pre \cap DOMAIN db :
             /\ db[i].status = last.pre[i].status
             /\ db[i].completed_at = last.pre[i].completed_at
             /\ db[i].created_at = last.pre[i].created_at
             /\ db[i].id = last.pre[i].id
    /\ last.op = "UpdateTask" => DOMAIN db = DOMAIN last.pre
    /\ (last.op = "ToggleTaskStatus" /\ last.err = ErrNone)
       => /\ DOMAIN db = DOMAIN last.pre
          /\ db[last.args].status # last.pre[last.args].status
          /\ \A i \in DOMAIN db :
                /\ db[i].title = last.pre[i].title
                /\ db[i].description = last.pre[i].description
                /\ db[i].priority = last.pre[i].priority
                /\ db[i].due_date = last.pre[i].due_date
                /\ db[i].created_at = last.pre[i].created_at

\* A completed task was updated: its description changed, its status stayed.
C22_Witness ==
    /\ last.op = "UpdateTask"
    /\ last.err = ErrNone
    /\ last.pre[last.args.id].status = "completed"
    /\ db[last.args.id].description # last.pre[last.args.id].description

\* C23: no step changes the created_at of a stored task or makes its
\* updated_at smaller, and created_at <= updated_at afterwards, also when two
\* calls on the task run concurrently.
C23_UpdatedAtNeverDecreases ==
    [][\A i \in DOMAIN db \cap DOMAIN db' :
          /\ db'[i].created_at = db[i].created_at
          /\ db'[i].created_at <= db'[i].updated_at
          /\ db'[i].updated_at >= db[i].updated_at]_vars

\* C29: once two ToggleTaskStatus that ran concurrently on the same task
\* have both returned without error, however their steps interleaved, the
\* stored status is the one from before the two calls, and each call has
\* returned the opposite of the status its statement wrote over.
C29_TwoToggles ==
    ( /\ calls # NoCalls
      /\ calls.toggle.pc = "done" /\ calls.toggle.err = ErrNone
      /\ calls.toggle2.pc = "done" /\ calls.toggle2.err = ErrNone )
    => /\ db[1].status = calls.pre[1].status
       /\ \A p \in Togglers : calls[p].out.status # calls[p].over

\* C30: while one ToggleTaskStatus and one UpdateTask run concurrently on
\* the same task, no step that finds the stored status completed changes the
\* stored title or priority.
C30_CompletedTitleFrozen ==
    [][(calls # NoCalls /\ calls.update.pc # "absent" /\ db[1].status = "completed")
       => /\ db'[1].title = db[1].title
          /\ db'[1].priority = db[1].priority]_vars

\* C24: in the answers of GetTasksWithPagination and GetDashboardStats a
\* task is flagged is_overdue exactly when it is stored active with a due
\* date strictly before the time of the call, so never when it is completed
\* or has no due date; GetOverdueTasks returns exactly the stored tasks that
\* would be flagged.
C24_OverdueFlag ==
    LET overdue(i) == /\ last.pre[i].status = "active"
                      /\ last.pre[i].due_date # Null
                      /\ last.pre[i].due_date < last.at
        flagged(tasks) == \A k \in 1..Len(tasks) : tasks[k].is_overdue <=> overdue(tasks[k].id)
    IN /\ (last.op = "GetTasksWithPagination" /\ last.err = ErrNone)
          => flagged(last.out.tasks)
       /\ (last.op = "GetDashboardStats" /\ last.err = ErrNone)
          => flagged(last.out.recent_tasks) /\ flagged(last.out.upcoming_tasks)
       /\ (last.op = "GetOverdueTasks" /\ last.fault = NoFault)
          => /\ last.err = ErrNone
             /\ ResultIds(last.out) = {i \in DOMAIN last.pre : overdue(i)}
             /\ Len(last.out) = Cardinality(ResultIds(last.out))

\* A page that holds a flagged task next to a completed task whose due date
\* has passed as well.
C24_Witness ==
    /\ last.op = "GetTasksWithPagination"
    /\ last.err = ErrNone
    /\ \E k, j \in 1..Len(last.out.tasks) :
          /\ last.out.tasks[k].is_overdue
          /\ last.out.tasks[j].status = "completed"
          /\ last.out.tasks[j].due_date # Null
          /\ last.out.tasks[j].due_date < last.at
          /\ ~last.out.tasks[j].is_overdue

\* C25: GetDashboardStats returns at most 5 recent tasks, the most recently
\* created stored tasks, newest first, and at most 5 upcoming tasks, all
\* active with a due date at or after the time of the call, soonest first,
\* leaving out no such task that is due sooner than one it returns; a list
\* is shorter than 5 only when there are no more such tasks.
C25_DashboardLists ==
    (last.op = "GetDashboardStats" /\ last.err = ErrNone)
    => LET recent == last.out.recent_tasks
           upcoming == last.out.upcoming_tasks
           due == {i \in DOMAIN last.pre : /\ last.pre[i].status = "active"
                                           /\ last.pre[i].due_date # Null
                                           /\ last.pre[i].due_date >= last.at}
           Min(a, b) == IF a < b THEN a ELSE b
       IN /\ Len(recent) = Min(5, Cardinality(DOMAIN last.pre))
          /\ Cardinality(ResultIds(recent)) = Len(recent)
          /\ ResultIds(recent) \subseteq DOMAIN last.pre
          /\ \A k \in 1..Len(recent) : recent[k].created_at = last.pre[recent[k].id].created_at
          /\ \A k, j \in 1..Len(recent) : k < j => recent[k].created_at >= recent[j].created_at
          /\ \A i \in DOMAIN last.pre \ ResultIds(recent) : \A k \in 1..Len(recent) :
                last.pre[i].created_at <= recent[k].created_at
          /\ Len(upcoming) = Min(5, Cardinality(due))
          /\ Cardinality(ResultIds(upcoming)) = Len(upcoming)
          /\ ResultIds(upcoming) \subseteq due
          /\ \A k \in 1..Len(upcoming) : upcoming[k].due_date = last.pre[upcoming[k].id].due_date
          /\ \A k, j \in 1..Len(upcoming) : k < j => upcoming[k].due_date <= upcoming[j].due_date
          /\ \A i \in due \ ResultIds(upcoming) : \A k \in 1..Len(upcoming) :
                last.pre[i].due_date >= upcoming[k].due_date

\* Both lists are cut at 5: more than 5 tasks are stored and more than 5 of
\* them are active and due.
C25_Witness ==
    /\ last.op = "GetDashboardStats"
    /\ last.err = ErrNone
    /\ Len(last.out.recent_tasks) = 5
    /\ Len(last.out.upcoming_tasks) = 5
    /\ Cardinality({i \in DOMAIN last.pre : /\ last.pre[i].status = "active"
                                            /\ last.pre[i].due_date # Null
                                            /\ last.pre[i].due_date >= last.at}) > 5

\* C26: GetAll with a sort by created_at, updated_at, due_date, title or
\* status returns the tasks in the order of the stored values of that very
\* field, in the direction asked for (tasks without a due date apart), and
\* with no sort given in descending order of created_at.
C26_SortByOwnField ==
    last.op = "GetAll"
    => LET field == last.args.sort.field
           order == last.args.sort.order
           Leq(a, b) ==
               CASE field = "created_at" -> a.created_at <= b.created_at
                 [] field = "updated_at" -> a.updated_at <= b.updated_at
                 [] field = "due_date" ->
                       a.due_date = Null \/ b.due_date = Null \/ a.due_date <= b.due_date
                 [] field = "title" -> LexLeq(a.title, b.title)
                 [] field = "status" -> a.status = "active" \/ b.status = "completed"
                 [] OTHER -> TRUE
       IN /\ \A k, j \in 1..Len(last.out) :
                k < j => IF order = "asc" THEN Leq(last.out[k], last.out[j])
                         ELSE IF order = "desc" THEN Leq(last.out[j], last.out[k])
                         ELSE TRUE
          /\ (field = "" /\ order = "")
             => \A k, j \in 1..Len(last.out) :
                   k < j => last.out[k].created_at >= last.out[j].created_at

C28_ErrorLeavesStore ==
    ( /\ last.op \in {"App.CreateTask", "App.UpdateTask", "DeleteTask", "ToggleTaskStatus"}
      /\ last.err # ErrNone )
    => db = last.pre

====
